---------------------------- MODULE Spec2Model ----------------------------
(***************************************************************************)
(* A model of mock-helper (src/src/mock-helper.c): one invocation of the   *)
(* setuid helper, from main() to exec, exit or crash.                      *)
(*                                                                         *)
(* C strings are sequences of one-character strings, so that strncmp,      *)
(* strstr, strlen and dirname work on characters as they do in the code.   *)
(* Argument positions keep the source's 0-based numbering through Arg(i).  *)
(***************************************************************************)
EXTENDS Integers, Sequences, FiniteSets, TLC

(***************************************************************************)
(* Bounds of the model.                                                    *)
(***************************************************************************)
\* longest path tail (the characters after the allowed root, or a whole
\* path outside it) an argument may have
MaxTail == 2
\* most entries a /proc listing delivers in the orphanskill scan
MaxProcs == 2
\* how many variables outside the allow-list the caller may have set
NumOther == 1

(***************************************************************************)
(* Characters and string literals of the source.                           *)
(***************************************************************************)
NUL == "\\0"

\* ROOTSDIR comes from config.h at configure time (mock: "/var/lib/mock");
\* the model keeps one absolute path without a trailing separator.
rootsdir == <<"/", "r">>

S_chroot == <<"c","h","r","o","o","t">>
S_mount == <<"m","o","u","n","t">>
S_rm == <<"r","m">>
S_umount == <<"u","m","o","u","n","t">>
S_rpm == <<"r","p","m">>
S_mknod == <<"m","k","n","o","d">>
S_yum == <<"y","u","m">>
S_unpack == <<"u","n","p","a","c","k">>
S_pack == <<"p","a","c","k">>
S_chown == <<"c","h","o","w","n">>
S_chmod == <<"c","h","m","o","d">>
S_orphanskill == <<"o","r","p","h","a","n","s","k","i","l","l">>

S_rf == <<"-","r","f">>
S_root == <<"-","-","r","o","o","t">>
S_installroot == <<"-","-","i","n","s","t","a","l","l","r","o","o","t">>
S_m == <<"-","m">>
S_t == <<"-","t">>
S_proc == <<"p","r","o","c">>
S_devpts == <<"d","e","v","p","t","s">>
S_bind == <<"-","-","b","i","n","d">>
S_dev == <<"/","d","e","v">>
S_dotdot == <<".",".">>
S_bz2 == <<".","b","z","2">>
S_gz == <<".","g","z">>

\* a literal the program only passes on, never inspects
Lit(s) == <<s>>

(***************************************************************************)
(* libc string functions, as the code uses them.                           *)
(***************************************************************************)
Min(a, b) == IF a < b THEN a ELSE b

\* strncmp (a, b, n) == 0: the first n characters agree, a terminator
\* inside them ending the comparison
StrnEq(a, b, n) ==
  IF Len(a) >= n /\ Len(b) >= n
    THEN SubSeq(a, 1, n) = SubSeq(b, 1, n)
    ELSE a = b

\* strstr (s, sub) != 0
HasSub(s, sub) ==
  \E i \in 1..(Len(s) - Len(sub) + 1) : SubSeq(s, i, i + Len(sub) - 1) = sub

\* strrchr / memrchr (s, '/', n): the last '/' among the first n characters
\* (1-based), 0 for NULL
LastSlash(s, n) ==
  LET idx == {i \in 1..n : s[i] = "/"}
  IN IF idx = {} THEN 0 ELSE CHOOSE i \in idx : \A j \in idx : j <= i

\* dirname's "runp" loop: the start of the run of '/' that ends at i
RunStart(s, i) ==
  CHOOSE j \in 1..i :
    /\ \A k \in j..i : s[k] = "/"
    /\ (j = 1 \/ s[j - 1] # "/")

\* dirname (path), glibc
Dirname(path) ==
  LET n == Len(path)
      ls0 == LastSlash(path, n)
      ls == IF ls0 # 0 /\ ls0 # 1 /\ ls0 = n
              THEN (IF RunStart(path, ls0) # 1
                      THEN LastSlash(path, RunStart(path, ls0) - 1)
                      ELSE ls0)
              ELSE ls0
  IN IF ls = 0 THEN <<".">>
     ELSE IF RunStart(path, ls) = 1
            THEN (IF ls = 2 THEN SubSeq(path, 1, 2) ELSE SubSeq(path, 1, 1))
            ELSE SubSeq(path, 1, RunStart(path, ls) - 1)

(***************************************************************************)
(* The state.                                                              *)
(***************************************************************************)
VARIABLES
  argv,        \* the argument vector; argc is its length
  callerEnv,   \* the caller's environment: name -> value, or NULL
  selinux,     \* built with USE_SELINUX and is_selinux_enabled () > 0
  nproc,       \* how many entries readdir ("/proc") delivers
  pc,          \* where the process is
  handler,     \* the do_* function main dispatched to
  call,        \* the pending do_command (filename, argv, use_selinux_preload)
  checks,      \* the checks check_allowed / check_dir_allowed made, in order
  passed,      \* the paths check_allowed returned normally for
  fs,          \* what lstat reported: a set of <<path, kind>>
  oob,         \* an argv position >= argc was handed to strncmp
  ub,          \* rootsdir was read past its terminator
  cwd,         \* the directory chdir changed to
  mkdirs,      \* the mkdir calls made
  chowns,      \* the chown calls made
  envIdx,      \* idx when do_command reaches execve
  execFile,    \* the file execve replaced the process with
  execArgv,    \* the argument vector given to execve
  execEnv,     \* the environment execve read
  listed,      \* the /proc entries the scan has read
  killed       \* the pids kill (pid, SIGKILL) was called on

inputs == <<argv, callerEnv, selinux, nproc>>
valvars == <<checks, passed, fs, oob, ub>>
sidevars == <<cwd, mkdirs, chowns>>
execvars == <<envIdx, execFile, execArgv, execEnv>>
scanvars == <<listed, killed>>
vars == <<argv, callerEnv, selinux, nproc, pc, handler, call, checks, passed,
          fs, oob, ub, cwd, mkdirs, chowns, envIdx, execFile, execArgv,
          execEnv, listed, killed>>

argc == Len(argv)
Arg(i) == argv[i + 1]

NoFile == ""
NoCall == [file |-> NoFile, args |-> <<>>, preload |-> FALSE]
Terminal == {"execd", "exit0", "exit1", "crash"}


(***************************************************************************)
(* Validation.  A handler threads a context through its checks: ok turns   *)
(* FALSE at the first error () call, after which nothing more is done.     *)
(***************************************************************************)
Begin ==
  [ok |-> TRUE, checks |-> checks, passed |-> passed, fs |-> fs,
   oob |-> oob, ub |-> ub]

\* if (!cond) error (...)
Require(ctx, cond) ==
  IF ctx.ok /\ ~cond THEN [ctx EXCEPT !.ok = FALSE] ELSE ctx

Chk(given, name, ok) == [path |-> given, check |-> name, ok |-> ok]

\* rootsdir[i], i counted from 0 as in C: a character of the string, its
\* terminator, or a byte past the literal (slashThere: that byte is '/')
RootsdirAt(i, slashThere) ==
  IF i < Len(rootsdir) THEN rootsdir[i + 1]
  ELSE IF i = Len(rootsdir) THEN NUL
  ELSE IF slashThere THEN "/" ELSE "?"

\* check_allowed (given)
CheckAllowed(ctx, given, slashThere) ==
  IF ~ctx.ok THEN ctx
  ELSE
    LET pre == StrnEq(given, rootsdir, Len(rootsdir))
        dots == HasSub(given, S_dotdot)
        last == RootsdirAt(Len(given) - 1, slashThere)
        past == Len(given) - 1 > Len(rootsdir)
    IN IF ~pre
         THEN [ctx EXCEPT !.ok = FALSE,
                          !.checks = @ \o <<Chk(given, "prefix", FALSE)>>]
       ELSE IF dots
         THEN [ctx EXCEPT !.ok = FALSE,
                          !.checks = @ \o <<Chk(given, "prefix", TRUE),
                                            Chk(given, "dotdot", FALSE)>>]
       ELSE IF last = "/"
         THEN [ctx EXCEPT !.ok = FALSE, !.ub = @ \/ past,
                          !.checks = @ \o <<Chk(given, "prefix", TRUE),
                                            Chk(given, "dotdot", TRUE),
                                            Chk(given, "slash", FALSE)>>]
       ELSE [ctx EXCEPT !.ub = @ \/ past,
                        !.passed = @ \cup {given},
                        !.checks = @ \o <<Chk(given, "prefix", TRUE),
                                          Chk(given, "dotdot", TRUE),
                                          Chk(given, "slash", TRUE)>>]

\* what lstat can report: an error (no such entry), a symbolic link, a
\* directory, or anything else (a regular file)
Kinds == {"err", "lnk", "dir", "reg"}

\* lstat (given): the file system does not change during the invocation;
\* a path not looked at before reports k
Lstat(known, given, k) ==
  IF \E e \in known : e[1] = given
    THEN (CHOOSE e \in known : e[1] = given)[2]
    ELSE k

\* check_dir_allowed with stat in place of lstat: a link to a directory
\* reports the directory
CheckDirAllowed_Follow(ctx, given, slashThere, k) ==
  LET c1 == CheckAllowed(ctx, given, slashThere)
      kind == Lstat(c1.fs, given, k)
      c2 == [c1 EXCEPT !.fs = @ \cup {<<given, kind>>}]
  IN IF ~c1.ok THEN c1
     ELSE IF kind = "err"
       THEN [c2 EXCEPT !.ok = FALSE,
                       !.checks = @ \o <<Chk(given, "lstat", FALSE)>>]
     ELSE IF kind = "reg"
       THEN [c2 EXCEPT !.ok = FALSE,
                       !.checks = @ \o <<Chk(given, "lstat", TRUE),
                                         Chk(given, "symlink", TRUE),
                                         Chk(given, "isdir", FALSE)>>]
     ELSE [c2 EXCEPT !.checks = @ \o <<Chk(given, "lstat", TRUE),
                                       Chk(given, "symlink", TRUE),
                                       Chk(given, "isdir", TRUE)>>]

\* check_dir_allowed (given)
CheckDirAllowed(ctx, given, slashThere, k) ==
  LET c1 == CheckAllowed(ctx, given, slashThere)
      kind == Lstat(c1.fs, given, k)
      c2 == [c1 EXCEPT !.fs = @ \cup {<<given, kind>>}]
  IN IF ~c1.ok THEN c1
     ELSE IF kind = "err"
       THEN [c2 EXCEPT !.ok = FALSE,
                       !.checks = @ \o <<Chk(given, "lstat", FALSE)>>]
     ELSE IF kind = "lnk"
       THEN [c2 EXCEPT !.ok = FALSE,
                       !.checks = @ \o <<Chk(given, "lstat", TRUE),
                                         Chk(given, "symlink", FALSE)>>]
     ELSE IF kind # "dir"
       THEN [c2 EXCEPT !.ok = FALSE,
                       !.checks = @ \o <<Chk(given, "lstat", TRUE),
                                         Chk(given, "symlink", TRUE),
                                         Chk(given, "isdir", FALSE)>>]
     ELSE [c2 EXCEPT !.checks = @ \o <<Chk(given, "lstat", TRUE),
                                       Chk(given, "symlink", TRUE),
                                       Chk(given, "isdir", TRUE)>>]

\* the end of a handler: the context's record is kept, and the process
\* either has called error () or calls do_command (file, args, preload)
Finish(ctx, file, args, preload) ==
  /\ checks' = ctx.checks
  /\ passed' = ctx.passed
  /\ fs' = ctx.fs
  /\ oob' = ctx.oob
  /\ ub' = ctx.ub
  /\ IF ctx.ok
       THEN /\ pc' = "do_command"
            /\ call' = [file |-> file, args |-> args, preload |-> preload]
       ELSE /\ pc' = "exit1"
            /\ call' = call

(***************************************************************************)
(* The handlers.                                                           *)
(***************************************************************************)
\* what a system call whose result only matters while no error () was
\* called may return
Outcomes(ctx) == IF ctx.ok THEN BOOLEAN ELSE {FALSE}

\* what lstat (given) may report, where check_dir_allowed gets to call it
LstatResults(ctx, given) ==
  IF ctx.ok /\ StrnEq(given, rootsdir, Len(rootsdir))
            /\ ~HasSub(given, S_dotdot)
    THEN Kinds ELSE {"err"}

\* whether the byte check_allowed reads past rootsdir's terminator is '/',
\* where it reads one
PastBytes(ctx, given) ==
  IF ctx.ok /\ StrnEq(given, rootsdir, Len(rootsdir))
            /\ ~HasSub(given, S_dotdot)
            /\ Len(given) - 1 > Len(rootsdir)
    THEN BOOLEAN ELSE {FALSE}

\* do_chroot
do_chroot ==
  /\ pc = "do_chroot"
  /\ LET c1 == Require(Begin, argc >= 3)
     IN \E k \in LstatResults(c1, Arg(2)), sl \in PastBytes(c1, Arg(2)) :
          Finish(CheckDirAllowed(c1, Arg(2), sl, k),
                 "/usr/sbin/chroot", Tail(argv), FALSE)
  /\ UNCHANGED <<inputs, handler, sidevars, execvars, scanvars>>

\* do_rm
do_rm ==
  /\ pc = "do_rm"
  /\ LET c1 == Require(Begin, argc >= 4)
         c2 == Require(c1, StrnEq(S_rf, Arg(2), 4))
     IN \E k \in LstatResults(c2, Arg(3)), sl \in PastBytes(c2, Arg(3)) :
          Finish(CheckDirAllowed(c2, Arg(3), sl, k),
                 "/bin/rm", Tail(argv), FALSE)
  /\ UNCHANGED <<inputs, handler, sidevars, execvars, scanvars>>

\* do_rpm
do_rpm ==
  /\ pc = "do_rpm"
  /\ LET c1 == Require(Begin, argc >= 4)
         c2 == Require(c1, StrnEq(S_root, Arg(2), 6))
     IN \E k \in LstatResults(c2, Arg(3)), sl \in PastBytes(c2, Arg(3)) :
          Finish(CheckDirAllowed(c2, Arg(3), sl, k),
                 "/bin/rpm", Tail(argv), FALSE)
  /\ UNCHANGED <<inputs, handler, sidevars, execvars, scanvars>>

\* do_yum
do_yum ==
  /\ pc = "do_yum"
  /\ LET c1 == Require(Begin, argc >= 4)
         c2 == Require(c1, StrnEq(S_installroot, Arg(2), 6))
     IN \E k \in LstatResults(c2, Arg(3)), sl \in PastBytes(c2, Arg(3)) :
          Finish(CheckDirAllowed(c2, Arg(3), sl, k),
                 "/usr/libexec/mock-yum", Tail(argv), TRUE)
  /\ UNCHANGED <<inputs, handler, sidevars, execvars, scanvars>>

\* do_umount
do_umount ==
  /\ pc = "do_umount"
  /\ LET c1 == Require(Begin, argc >= 3)
     IN \E k \in LstatResults(c1, Arg(2)), sl \in PastBytes(c1, Arg(2)) :
          Finish(CheckDirAllowed(c1, Arg(2), sl, k),
                 "/bin/umount", Tail(argv), TRUE)
  /\ UNCHANGED <<inputs, handler, sidevars, execvars, scanvars>>

\* strncmp (rootsdir, argv[i], strlen (rootsdir)) in do_mount: argv[i] with
\* i >= argc is the vector's NULL terminator or beyond it, and strncmp on
\* it is undefined
MountDest(ctx, i) ==
  IF ~ctx.ok THEN ctx
  ELSE IF i >= argc THEN [ctx EXCEPT !.ok = FALSE, !.oob = TRUE]
  ELSE Require(ctx, StrnEq(rootsdir, Arg(i), Len(rootsdir)))

\* do_mount; nullRead: what the strncmp on a missing argument does, a
\* fault (the process dies of SIGSEGV) or a mismatch
do_mount ==
  /\ pc = "do_mount"
  /\ \E nullRead \in {"fault", "mismatch"} :
       LET c1 == Require(Begin, argc >= 5)
           c2 == IF ~c1.ok THEN c1
                 ELSE IF StrnEq(S_t, Arg(2), 2) /\ StrnEq(S_proc, Arg(3), 4)
                   THEN MountDest(c1, 5)
                 ELSE IF StrnEq(S_t, Arg(2), 2) /\ StrnEq(S_devpts, Arg(3), 6)
                   THEN MountDest(Require(c1, ~(argc < 5)), 5)
                 ELSE IF StrnEq(S_bind, Arg(2), 6) /\ StrnEq(S_dev, Arg(3), 4)
                   THEN MountDest(c1, 4)
                 ELSE [c1 EXCEPT !.ok = FALSE]
       IN IF c2.oob /\ nullRead = "fault"
            THEN /\ pc' = "crash"
                 /\ oob' = TRUE
                 /\ UNCHANGED <<call, checks, passed, fs, ub>>
            ELSE Finish(c2, "/bin/mount", Tail(argv), FALSE)
  /\ UNCHANGED <<inputs, handler, sidevars, execvars, scanvars>>

\* do_mknod
do_mknod ==
  /\ pc = "do_mknod"
  /\ LET c1 == Require(Begin, argc >= 8)
         c2 == Require(c1, StrnEq(Arg(2), rootsdir, Len(rootsdir)))
         c3 == Require(c2, ~HasSub(Arg(2), S_dotdot))
         c4 == Require(c3, Arg(2)[Len(Arg(2))] # "/")
         c5 == Require(c4, StrnEq(S_m, Arg(3), 2))
     IN Finish(c5, "/bin/mknod", Tail(argv), FALSE)
  /\ UNCHANGED <<inputs, handler, sidevars, execvars, scanvars>>

\* "select compression" of do_unpack and do_pack, on the archive's name
Compression(name, bz2, gz, plain) ==
  IF HasSub(name, S_bz2) THEN bz2
  ELSE IF HasSub(name, S_gz) THEN gz
  ELSE plain

\* do_unpack; cd: chdir succeeds
do_unpack ==
  /\ pc = "do_unpack"
  /\ LET c1 == Require(Begin, argc >= 4)
     IN \E k \in LstatResults(c1, Arg(2)), sl \in PastBytes(c1, Arg(2)) :
          LET c2 == CheckDirAllowed(c1, Arg(2), sl, k)
          IN \E cd \in Outcomes(c2) :
               /\ cwd' = IF cd THEN Arg(2) ELSE cwd
               /\ Finish(Require(c2, cd), "/bin/tar",
                         <<Lit("tar"), Lit("--same-owner"),
                           Compression(Arg(3), Lit("-jxpf"), Lit("-zxpf"),
                                       Lit("-xpf")),
                           Arg(3)>>,
                         FALSE)
  /\ UNCHANGED <<inputs, handler, mkdirs, chowns, execvars, scanvars>>

\* do_pack; cd: chdir succeeds, gr: getgrnam ("mock") finds the group
do_pack ==
  /\ pc = "do_pack"
  /\ LET c1 == Require(Begin, argc >= 5)
     IN \E k \in LstatResults(c1, Arg(2)), sl \in PastBytes(c1, Arg(2)) :
          LET c2 == CheckDirAllowed(c1, Arg(2), sl, k)
          IN \E cd \in Outcomes(c2) :
               LET c3 == Require(c2, cd)
                   cache_dir == Dirname(Arg(3))
               IN \E k2 \in LstatResults(c3, cache_dir),
                     sl2 \in PastBytes(c3, cache_dir) :
                    LET c4 == CheckDirAllowed(c3, cache_dir, sl2, k2)
                    IN \E gr \in Outcomes(c4) :
                         /\ cwd' = IF cd THEN Arg(2) ELSE cwd
                         /\ mkdirs' =
                              IF c4.ok
                                THEN Append(mkdirs,
                                       [path |-> cache_dir, mode |-> "0750",
                                        created |->
                                          Lstat(c4.fs, cache_dir, k2) = "err"])
                                ELSE mkdirs
                         /\ chowns' =
                              IF gr
                                THEN Append(chowns,
                                       [path |-> cache_dir, owner |-> "0",
                                        group |-> "mock"])
                                ELSE chowns
                         /\ Finish(c4, "/bin/tar",
                                   <<Lit("tar"), Lit("--one-file-system"),
                                     Compression(Arg(3), Lit("-jcf"),
                                                 Lit("-zcf"), Lit("-cf")),
                                     Arg(3), Arg(4)>>,
                                   FALSE)
  /\ UNCHANGED <<inputs, handler, execvars, scanvars>>

\* "verify files are legal" of do_chown and do_chmod:
\* for (i = 3; i < argc; i++) check_allowed (argv[i]);
\* sls[i]: the byte check_allowed reads past rootsdir for argv[i] is '/'
RECURSIVE CheckFiles(_, _, _)
CheckFiles(ctx, i, sls) ==
  IF i >= argc THEN ctx
  ELSE CheckFiles(CheckAllowed(ctx, Arg(i), sls[i]), i + 1, sls)

\* do_chown
do_chown ==
  /\ pc = "do_chown"
  /\ \E sls \in [3..(argc - 1) -> BOOLEAN] :
       LET c1 == Require(Begin, argc >= 4)
           c2 == CheckFiles(c1, 3, sls)
       IN Finish(c2, "/bin/chown", Tail(argv), TRUE)
  /\ UNCHANGED <<inputs, handler, sidevars, execvars, scanvars>>

\* do_chmod
do_chmod ==
  /\ pc = "do_chmod"
  /\ \E sls \in [3..(argc - 1) -> BOOLEAN] :
       LET c1 == Require(Begin, argc >= 4)
           c2 == CheckFiles(c1, 3, sls)
       IN Finish(c2, "/bin/chmod", Tail(argv), TRUE)
  /\ UNCHANGED <<inputs, handler, sidevars, execvars, scanvars>>

\* do_orphanskill up to its loop; sys: malloc and opendir ("/proc") succeed
do_orphanskill ==
  /\ pc = "do_orphanskill"
  /\ LET c1 == Require(Begin, argc >= 3)
     IN \E k \in LstatResults(c1, Arg(2)), sl \in PastBytes(c1, Arg(2)) :
          LET c2 == CheckDirAllowed(c1, Arg(2), sl, k)
          IN \E sys \in Outcomes(c2) :
               LET c3 == Require(c2, sys)
               IN /\ checks' = c3.checks
                  /\ passed' = c3.passed
                  /\ fs' = c3.fs
                  /\ oob' = c3.oob
                  /\ ub' = c3.ub
                  /\ pc' = IF c3.ok THEN "scan" ELSE "exit1"
  /\ UNCHANGED <<inputs, handler, call, sidevars, execvars, scanvars>>

(***************************************************************************)
(* do_command: the environment and execve.                                 *)
(***************************************************************************)
ALLOWED_ENV ==
  <<"dist", "ftp_proxy", "http_proxy", "https_proxy", "no_proxy", "PS1">>
ALLOWED_ENV_SIZE == Len(ALLOWED_ENV)

\* char *env[3 + ALLOWED_ENV_SIZE]
EnvCap == 3 + ALLOWED_ENV_SIZE

\* an environment string "NAME=value"; the empty tuple is the NULL pointer
EnvStr(name, value) == <<name, value>>
NullPtr == <<>>
NULL == "(null)"

PathEntry == EnvStr("PATH", "/bin:/usr/bin:/usr/sbin")
HomeEntry == EnvStr("HOME", "/root")
PreloadEntry == EnvStr("LD_PRELOAD", "libselinux-mock.so")

\* the initializer of env[]: slots 0 and 1 set, the others NULL
EnvInitial ==
  [i \in 0..(EnvCap - 1) |->
     IF i = 0 THEN PathEntry ELSE IF i = 1 THEN HomeEntry ELSE NullPtr]

\* env[idx++] = entry
Push(st, entry) ==
  [env |-> [i \in DOMAIN st.env |-> IF i = st.idx THEN entry ELSE st.env[i]],
   idx |-> st.idx + 1]

\* the loop over ALLOWED_ENV, from index i (counted from 0): getenv, and
\* the pointer moved back over "NAME=" to the start of the caller's string
RECURSIVE CopyAllowed(_, _)
CopyAllowed(st, i) ==
  IF i >= ALLOWED_ENV_SIZE THEN st
  ELSE LET name == ALLOWED_ENV[i + 1]
           ptr == callerEnv[name]
       IN IF ptr = NULL THEN CopyAllowed(st, i + 1)
          ELSE CopyAllowed(Push(st, EnvStr(name, ptr)), i + 1)

\* env[] and idx when execve is called
BuildEnv(use_selinux_preload) ==
  LET st0 == [env |-> EnvInitial, idx |-> 2]
      st1 == IF selinux /\ use_selinux_preload
               THEN Push(st0, PreloadEntry) ELSE st0
  IN CopyAllowed(st1, 0)

\* what execve reads of env[] from slot i on: the entries up to the first
\* NULL, and whether the array ended before one was found
RECURSIVE ReadEnv(_, _)
ReadEnv(env, i) ==
  IF i >= EnvCap THEN [vec |-> <<>>, past |-> TRUE]
  ELSE IF env[i] = NullPtr THEN [vec |-> <<>>, past |-> FALSE]
  ELSE LET r == ReadEnv(env, i + 1)
       IN [vec |-> <<env[i]>> \o r.vec, past |-> r.past]

\* what lies behind env[] on the stack when execve reads past it: a NULL,
\* a pointer execve cannot read (EFAULT), or a pointer to some bytes
Behind == {"null", "efault", "bytes"}
StackBytes == EnvStr("(stack)", "(bytes)")

\* do_command; ok: execve succeeds
do_command ==
  /\ pc = "do_command"
  /\ \E ok \in BOOLEAN, behind \in Behind :
       LET st == BuildEnv(call.preload)
           r == ReadEnv(st.env, 0)
       IN /\ envIdx' = st.idx
          /\ IF (r.past /\ behind = "efault") \/ ~ok
               THEN /\ pc' = "exit1"
                    /\ UNCHANGED <<execFile, execArgv, execEnv>>
               ELSE /\ pc' = "execd"
                    /\ execFile' = call.file
                    /\ execArgv' = call.args
                    /\ execEnv' = IF r.past /\ behind = "bytes"
                                    THEN r.vec \o <<StackBytes>>
                                    ELSE r.vec
  /\ UNCHANGED <<inputs, handler, call, valvars, sidevars, scanvars>>

(***************************************************************************)
(* The loop of do_orphanskill.                                             *)
(***************************************************************************)
\* getpid ()
SelfPid == 2

\* isdigit
Digits == {"1", "2"}
DigitValue(c) == IF c = "1" THEN 1 ELSE 2

\* "Check /^\d+$/": the name is not empty and all digits
IsNumeric(name) == name # <<>> /\ \A i \in 1..Len(name) : name[i] \in Digits

\* atoi on a name IsNumeric accepted
RECURSIVE Atoi(_)
Atoi(name) ==
  IF name = <<>> THEN 0
  ELSE 10 * Atoi(SubSeq(name, 1, Len(name) - 1)) + DigitValue(name[Len(name)])

\* readlink (proc_root, link_buf, bufsiz): -1, or the target cut to bufsiz
Readlink(lk, bufsiz) ==
  IF lk.err THEN [got |-> -1, buf |-> <<>>]
  ELSE [got |-> Min(Len(lk.target), bufsiz),
        buf |-> SubSeq(lk.target, 1, Min(Len(lk.target), bufsiz))]

\* the comparison without link_buf_got != chrootdir_len - 1
LinkMatches_NoLength(lk, chrootdir) ==
  LET r == Readlink(lk, Len(chrootdir) + 1)
  IN r.got >= Len(chrootdir) /\ SubSeq(r.buf, 1, Len(chrootdir)) = chrootdir

\* the negation of the loop's "continue" test on readlink's result
LinkMatches(lk, chrootdir) ==
  LET chrootdir_len == Len(chrootdir) + 1
      r == Readlink(lk, chrootdir_len)
  IN ~(\/ r.got # chrootdir_len - 1
       \/ SubSeq(r.buf, 1, chrootdir_len - 1) # chrootdir)

\* orphanskill_pid treating a failed kill as an error ()
OnKillFailure_Fatal == "exit1"

\* orphanskill_pid after kill failed: a warning, and the scan goes on
OnKillFailure == "scan"

\* the names readdir may deliver, and their d_type
ProcNames == {<<"1">>, <<"2">>, <<"1", "2">>, <<"s">>, <<"1", "s">>}
DTypes == {"DT_DIR", "DT_REG"}

\* what /proc/<pid>/root may be: unreadable, the chroot itself, the chroot
\* cut short or extended, another path of its length, or the real root
NoLink == [err |-> TRUE, target |-> <<>>]
LinkResults(chrootdir) ==
  {NoLink} \cup
  {[err |-> FALSE, target |-> t] :
     t \in {chrootdir,
            SubSeq(chrootdir, 1, Len(chrootdir) - 1),
            chrootdir \o <<"a">>,
            SubSeq(chrootdir, 1, Len(chrootdir) - 1) \o <<"b">>,
            <<"/">>}}

Entry(pid, lk, sig) == [pid |-> pid, link |-> lk, sig |-> sig]

\* one iteration of while ((dirent = readdir (dir))), orphanskill_pid
\* included; killOk: kill returns 0.  snprintf of "/proc/%d/root" into 64
\* bytes always fits, so its warning branch is never taken.
ScanEntry ==
  /\ pc = "scan"
  /\ Len(listed) < nproc
  /\ \E name \in ProcNames, d_type \in DTypes, lk \in LinkResults(Arg(2)),
        killOk \in BOOLEAN :
       IF d_type # "DT_DIR" \/ ~IsNumeric(name)
         THEN /\ listed' = Append(listed, Entry(0, NoLink, "skip"))
              /\ UNCHANGED <<pc, killed>>
       ELSE IF ~LinkMatches(lk, Arg(2))
         THEN /\ listed' = Append(listed, Entry(Atoi(name), lk, "none"))
              /\ UNCHANGED <<pc, killed>>
       ELSE IF Atoi(name) = SelfPid
         THEN /\ listed' = Append(listed, Entry(Atoi(name), lk, "self"))
              /\ pc' = "exit1"
              /\ UNCHANGED killed
       ELSE /\ killed' = Append(killed, Atoi(name))
            /\ listed' = Append(listed,
                                Entry(Atoi(name), lk,
                                      IF killOk THEN "sent" ELSE "failed"))
            /\ pc' = IF killOk THEN "scan" ELSE OnKillFailure
  /\ UNCHANGED <<inputs, handler, call, valvars, sidevars, execvars>>

\* readdir returns NULL: do_orphanskill returns and main calls exit (0)
ScanEnd ==
  /\ pc = "scan"
  /\ Len(listed) = nproc
  /\ pc' = "exit0"
  /\ UNCHANGED <<inputs, handler, call, valvars, sidevars, execvars, scanvars>>

(***************************************************************************)
(* main.                                                                   *)
(***************************************************************************)
\* the chain of strncmp tests on argv[1], in the source's order
Dispatch(cmd) ==
  IF StrnEq(S_chroot, cmd, 6) THEN "do_chroot"
  ELSE IF StrnEq(S_mount, cmd, 5) THEN "do_mount"
  ELSE IF StrnEq(S_rm, cmd, 2) THEN "do_rm"
  ELSE IF StrnEq(S_umount, cmd, 6) THEN "do_umount"
  ELSE IF StrnEq(S_rpm, cmd, 3) THEN "do_rpm"
  ELSE IF StrnEq(S_mknod, cmd, 5) THEN "do_mknod"
  ELSE IF StrnEq(S_yum, cmd, 3) THEN "do_yum"
  ELSE IF StrnEq(S_unpack, cmd, 6) THEN "do_unpack"
  ELSE IF StrnEq(S_pack, cmd, 4) THEN "do_pack"
  ELSE IF StrnEq(S_chown, cmd, 5) THEN "do_chown"
  ELSE IF StrnEq(S_chmod, cmd, 5) THEN "do_chmod"
  ELSE IF StrnEq(S_orphanskill, cmd, 11) THEN "do_orphanskill"
  ELSE "exit1"

\* main up to the call of the handler
Main ==
  /\ pc = "main"
  /\ pc' = IF argc < 2 THEN "exit1" ELSE Dispatch(Arg(1))
  /\ handler' = IF argc < 2 THEN handler ELSE Dispatch(Arg(1))
  /\ UNCHANGED <<inputs, call, valvars, sidevars, execvars, scanvars>>

(***************************************************************************)
(* The inputs of an invocation.                                            *)
(***************************************************************************)
TailChars == {"/", ".", "a"}
Tails == UNION {[1..n -> TailChars] : n \in 0..MaxTail}

\* paths under the literal prefix rootsdir, and paths without it
Paths == {rootsdir \o t : t \in Tails} \cup Tails

X == <<"X">>
RmFlags == {S_rf, S_rf \o X, <<"-", "r">>}
RpmFlags == {S_root, S_root \o X, <<"-", "-", "r", "o", "o">>}
YumFlags == {S_installroot, SubSeq(S_installroot, 1, 6) \o <<"X", "Y", "Z">>,
             S_root}
MknodFlags == {S_m, S_m \o X, <<"-", "x">>}
MountFlags == {S_t, S_t \o X, S_bind, S_bind \o X, <<"-", "x">>}
MountTypes == {S_proc, S_proc \o X, S_devpts, S_devpts \o X, S_dev,
               S_dev \o X, <<"e", "x", "t">>}

P0 == Lit("mock-helper")
SomeDir == rootsdir \o <<"/", "a">>
Archives == {SomeDir \o <<"/", "a">>, SomeDir \o S_gz, SomeDir \o S_bz2}

DirRequests(cmd) == {<<P0, cmd>>} \cup {<<P0, cmd, p>> : p \in Paths}

FlagDirRequests(cmd, flags) ==
  {<<P0, cmd, f>> : f \in flags}
    \cup {<<P0, cmd, f, p>> : f \in flags, p \in Paths}

MountRequests ==
  {<<P0, S_mount, f, t>> : f \in MountFlags, t \in MountTypes}
    \cup {<<P0, S_mount, f, t, d>> :
            f \in MountFlags, t \in MountTypes, d \in Paths}
    \cup {<<P0, S_mount, f, t, S_proc, d>> :
            f \in MountFlags, t \in MountTypes, d \in Paths}

MknodRequests ==
  {<<P0, S_mknod, p, f, Lit("666"), Lit("c"), Lit("1")>> :
     p \in {SomeDir}, f \in MknodFlags}
    \cup {<<P0, S_mknod, p, f, Lit("666"), Lit("c"), Lit("1"), Lit("3")>> :
            p \in Paths, f \in MknodFlags}

UnpackRequests ==
  {<<P0, S_unpack, p>> : p \in {SomeDir}}
    \cup {<<P0, S_unpack, p, a>> : p \in Paths, a \in Archives}

PackRequests ==
  {<<P0, S_pack, p, a>> : p \in {SomeDir}, a \in Archives}
    \cup {<<P0, S_pack, p, a, Lit(".")>> :
            p \in Paths, a \in Paths \cup Archives}

FileRequests(cmd) ==
  {<<P0, cmd, Lit("root")>>}
    \cup {<<P0, cmd, Lit("root"), p>> : p \in Paths}
    \cup {<<P0, cmd, Lit("root"), p, q>> : p \in Paths, q \in Paths}

Requests ==
  {<<P0>>, <<P0, <<"l", "s">>, SomeDir>>, <<P0, S_rm \o X, S_rf, SomeDir>>}
    \cup DirRequests(S_chroot) \cup DirRequests(S_umount)
    \cup DirRequests(S_orphanskill)
    \cup FlagDirRequests(S_rm, RmFlags)
    \cup FlagDirRequests(S_rpm, RpmFlags)
    \cup FlagDirRequests(S_yum, YumFlags)
    \cup MountRequests \cup MknodRequests
    \cup UnpackRequests \cup PackRequests
    \cup FileRequests(S_chown) \cup FileRequests(S_chmod)

\* one well-formed request of each subcommand
CanonicalRequests ==
  {<<P0, S_chroot, SomeDir>>,
   <<P0, S_mount, S_t, S_proc, S_proc, SomeDir>>,
   <<P0, S_rm, S_rf, SomeDir>>,
   <<P0, S_umount, SomeDir>>,
   <<P0, S_rpm, S_root, SomeDir>>,
   <<P0, S_mknod, SomeDir, S_m, Lit("666"), Lit("c"), Lit("1"), Lit("3")>>,
   <<P0, S_yum, S_installroot, SomeDir>>,
   <<P0, S_unpack, SomeDir, SomeDir \o S_gz>>,
   <<P0, S_pack, SomeDir, SomeDir \o <<"/", "a">>, Lit(".")>>,
   <<P0, S_chown, Lit("root"), SomeDir>>,
   <<P0, S_chmod, Lit("0750"), SomeDir>>,
   <<P0, S_orphanskill, SomeDir>>}

OtherNamePool == <<"LD_LIBRARY_PATH", "PATH", "IFS">>
OtherNames == {OtherNamePool[i] : i \in 1..NumOther}
AllowedNames == {ALLOWED_ENV[i] : i \in 1..ALLOWED_ENV_SIZE}
EnvNames == AllowedNames \cup OtherNames
EnvValues == {"v", "w"}

\* every environment the caller may run the helper in
CallerEnvs == [EnvNames -> EnvValues \cup {NULL}]

\* one of them: dist and the variables outside the allow-list are set
SampleEnvs ==
  {[n \in EnvNames |-> IF n \in {"dist"} \cup OtherNames THEN "v" ELSE NULL]}

(***************************************************************************)
(* The specifications.                                                     *)
(***************************************************************************)
InitWith(requests, envs, macs, procs) ==
  /\ argv \in requests
  /\ callerEnv \in envs
  /\ selinux \in macs
  /\ nproc \in procs
  /\ pc = "main"
  /\ handler = "none"
  /\ call = NoCall
  /\ checks = <<>>
  /\ passed = {}
  /\ fs = {}
  /\ oob = FALSE
  /\ ub = FALSE
  /\ cwd = <<>>
  /\ mkdirs = <<>>
  /\ chowns = <<>>
  /\ envIdx = 0
  /\ execFile = NoFile
  /\ execArgv = <<>>
  /\ execEnv = <<>>
  /\ listed = <<>>
  /\ killed = <<>>

\* every request, in one environment
Init == InitWith(Requests, SampleEnvs, {FALSE}, {1})

\* every environment, for one request of each subcommand
InitEnv == InitWith(CanonicalRequests, CallerEnvs, BOOLEAN, {1})

\* every /proc listing, for one request of each subcommand
InitOrphan == InitWith(CanonicalRequests, SampleEnvs, {FALSE}, 0..MaxProcs)

Next ==
  \/ Main
  \/ do_chroot
  \/ do_mount
  \/ do_rm
  \/ do_umount
  \/ do_rpm
  \/ do_mknod
  \/ do_yum
  \/ do_unpack
  \/ do_pack
  \/ do_chown
  \/ do_chmod
  \/ do_orphanskill
  \/ do_command
  \/ ScanEntry
  \/ ScanEnd

Spec == Init /\ [][Next]_vars
SpecEnv == InitEnv /\ [][Next]_vars
SpecOrphan == InitOrphan /\ [][Next]_vars

\* the process is single-threaded and is always scheduled again
FairOrphan == InitOrphan /\ [][Next]_vars /\ WF_vars(Next)

(***************************************************************************)
(* Properties.                                                             *)
(***************************************************************************)
HasRootPrefix(p) == Len(p) >= Len(rootsdir) /\ SubSeq(p, 1, Len(rootsdir)) = rootsdir
HasDotDot(p) == \E i \in 1..(Len(p) - 1) : p[i] = "." /\ p[i + 1] = "."
EndsInSeparator(p) == p # <<>> /\ p[Len(p)] = "/"

\* the process has committed to execve, or has made a mkdir, chown or kill
Acted ==
  call # NoCall \/ execFile # NoFile \/ mkdirs # <<>> \/ chowns # <<>> \/ killed # <<>>

DirHandlers ==
  {"do_chroot", "do_rm", "do_rpm", "do_yum", "do_umount", "do_unpack",
   "do_pack", "do_orphanskill"}
DirPos == IF handler \in {"do_rm", "do_rpm", "do_yum"} THEN 3 ELSE 2

\* the checks C1 names, in the order it names them
ClaimedOrder == <<"prefix", "dotdot", "lstat", "symlink", "isdir">>
NotSlashCheck(e) == e.check # "slash"
ClaimedLog ==
  LET log == SelectSeq(checks, NotSlashCheck)
  IN SubSeq(log, 1, Min(Len(log), Len(ClaimedOrder)))

\* C1: in chroot, rm, rpm, yum, umount, unpack, pack and orphanskill, an
\* exec, mkdir, chown or kill happens only after the directory argument
\* passed, in this order, the prefix check, the '..' check and a no-follow
\* stat reporting a directory that is no symbolic link; after a failed
\* check the process has exited with status 1 and none of them happened.
C1_DirCheckedBeforeAction ==
  handler \in DirHandlers =>
    /\ \A i \in 1..Len(ClaimedLog) :
         /\ ClaimedLog[i].check = ClaimedOrder[i]
         /\ ClaimedLog[i].path = Arg(DirPos)
         /\ ~ClaimedLog[i].ok => i = Len(ClaimedLog)
    /\ Acted =>
         /\ argc > DirPos
         /\ Len(ClaimedLog) = Len(ClaimedOrder)
         /\ \A i \in 1..Len(ClaimedLog) : ClaimedLog[i].ok
         /\ HasRootPrefix(Arg(DirPos))
         /\ ~HasDotDot(Arg(DirPos))
         /\ <<Arg(DirPos), "dir">> \in fs
    /\ (\E i \in 1..Len(ClaimedLog) : ~ClaimedLog[i].ok) =>
         pc = "exit1" /\ ~Acted

C1_Witness ==
  /\ handler = "do_pack"
  /\ pc = "execd"
  /\ mkdirs # <<>>
  /\ chowns # <<>>
  /\ <<Arg(2), "dir">> \in fs

\* C2: check_allowed never returns to its caller for a path that ends in
\* '/', so no handler goes on with such a path.
C2_TrailingSeparatorRejected ==
  \A p \in passed : ~EndsInSeparator(p)

MinArgs ==
  [do_chroot |-> 3, do_mount |-> 5, do_rm |-> 4, do_rpm |-> 4, do_yum |-> 4,
   do_umount |-> 3, do_mknod |-> 8, do_unpack |-> 4, do_pack |-> 5,
   do_chown |-> 4, do_chmod |-> 4, do_orphanskill |-> 3]

FlagExact ==
  CASE handler = "do_rm" -> Arg(2) = S_rf
    [] handler = "do_rpm" -> Arg(2) = S_root
    [] handler = "do_yum" -> Arg(2) = S_installroot
    [] handler = "do_mknod" -> Arg(3) = S_m
    [] handler = "do_mount" -> Arg(2) \in {S_t, S_bind}
    [] OTHER -> TRUE

\* C3: a handler goes on to exec (or, for orphanskill, to its scan) only
\* with at least its documented number of arguments and with its flag
\* token exactly equal to the expected string.
C3_CountAndFlagExact ==
  (call # NoCall \/ pc \in {"scan", "exit0"}) =>
    /\ argc >= MinArgs[handler]
    /\ FlagExact

AllowedMount ==
  /\ argc >= 5
  /\ \/ /\ Arg(2) = S_t
        /\ Arg(3) \in {S_proc, S_devpts}
        /\ argc > 5
        /\ HasRootPrefix(Arg(5))
     \/ /\ Arg(2) = S_bind
        /\ Arg(3) = S_dev
        /\ HasRootPrefix(Arg(4))

\* C4: on a mount request of at least 5 arguments the validator reads only
\* positions below argc; /bin/mount is exec'd only for '-t proc',
\* '-t devpts' or '--bind /dev' with the destination present and under the
\* allowed root by prefix; every other request exits with status 1.
C4_MountArguments ==
  (handler = "do_mount" /\ argc >= 5) =>
    /\ ~oob
    /\ call # NoCall => AllowedMount
    /\ (~AllowedMount /\ pc # "do_mount") => pc = "exit1"

\* the environment C5 describes
ExpectedEnv ==
  {PathEntry, HomeEntry}
    \cup (IF selinux /\ call.preload THEN {PreloadEntry} ELSE {})
    \cup {EnvStr(n, callerEnv[n]) : n \in {m \in AllowedNames : callerEnv[m] # NULL}}

\* C5: the environment execve reads holds exactly the fixed PATH and HOME,
\* the preload entry when MAC is enabled and the handler asked for it, and
\* the caller's entry of every allow-listed name that is set.
C5_ExactEnvironment ==
  pc = "execd" =>
    /\ {execEnv[i] : i \in 1..Len(execEnv)} = ExpectedEnv
    /\ Len(execEnv) = Cardinality(ExpectedEnv)

\* the destination do_mount compared with rootsdir
MountDestArg == IF StrnEq(S_t, Arg(2), 2) THEN Arg(5) ELSE Arg(4)

\* C9: /bin/mount is reached only with a destination that begins with the
\* allowed root and holds no '..'.
C9_NoTraversalMount ==
  (handler = "do_mount" /\ call # NoCall) =>
    /\ HasRootPrefix(MountDestArg)
    /\ ~HasDotDot(MountDestArg)

\* C10: env[] is terminated inside its own array: fewer entries are
\* written than it has slots.
C10_EnvTerminatedInArray ==
  envIdx < EnvCap

\* C7: a pack request whose source directory validated, and whose
\* archive's parent directory is lexically contained and is a directory or
\* does not exist yet, makes that directory (creating it when it did not
\* exist) before tar is exec'd.
C7_PackCreatesParent ==
  LET parent == Dirname(Arg(3))
  IN (/\ handler = "do_pack"
      /\ pc # "do_pack"
      /\ argc >= 5
      /\ <<Arg(2), "dir">> \in fs
      /\ cwd = Arg(2)
      /\ parent \in passed
      /\ <<parent, "lnk">> \notin fs
      /\ <<parent, "reg">> \notin fs)
       => \E i \in 1..Len(mkdirs) :
            /\ mkdirs[i].path = parent
            /\ <<parent, "err">> \in fs => mkdirs[i].created

\* a listed entry of a process whose root is the chroot path
IsMatch(e) == e.sig # "skip" /\ ~e.link.err /\ e.link.target = Arg(2)
Signalled(e) == e.sig \in {"sent", "failed"}
SelfMatched == \E i \in 1..Len(listed) : listed[i].sig = "self"
ScanStarted ==
  handler = "do_orphanskill" /\ (pc \in {"scan", "exit0"} \/ listed # <<>>)

\* C6: SIGKILL goes only to a process whose root link is byte for byte the
\* chroot path, never to the reaper's own pid; when its own pid matches
\* the invocation fails instead.
C6_ExactRootMatchOnly ==
  handler = "do_orphanskill" =>
    /\ \A i \in 1..Len(listed) :
         /\ Signalled(listed[i]) =>
              IsMatch(listed[i]) /\ listed[i].pid # SelfPid
         /\ (IsMatch(listed[i]) /\ listed[i].pid = SelfPid) =>
              listed[i].sig = "self" /\ pc = "exit1"
    /\ \A i \in 1..Len(killed) : killed[i] # SelfPid
    /\ Len(killed) = Cardinality({i \in 1..Len(listed) : Signalled(listed[i])})

C6_Witness ==
  /\ \E i \in 1..Len(listed) : listed[i].sig = "sent"
  /\ \E i \in 1..Len(listed) :
       /\ listed[i].sig = "none"
       /\ listed[i].link.target = Arg(2) \o <<"a">>

\* C8 as stated: once the scan has started the invocation never exits
\* with status 1, and it ends with every listed entry read and every
\* matching process other than the reaper signalled.
C8_ScanAlwaysCompletes ==
  ScanStarted =>
    /\ pc # "exit1"
    /\ pc = "exit0" =>
         /\ Len(listed) = nproc
         /\ \A i \in 1..Len(listed) :
              (IsMatch(listed[i]) /\ listed[i].pid # SelfPid) =>
                Signalled(listed[i])

\* C8, amended: the scan signals every matching process other than the
\* reaper among the entries it reads, whatever fails for other entries,
\* and the invocation ends: with status 0 after the whole listing, or with
\* status 1 at an entry of the reaper's own pid whose root matches.
C8_ScanCompletesUnlessSelf ==
  /\ [](ScanStarted =>
          \A i \in 1..Len(listed) :
            (IsMatch(listed[i]) /\ listed[i].pid # SelfPid) =>
              Signalled(listed[i]))
  /\ []((ScanStarted /\ pc = "exit1") =>
          listed[Len(listed)].sig = "self")
  /\ []((ScanStarted /\ pc = "exit0") => Len(listed) = nproc)
  /\ (ScanStarted ~> (pc = "exit0" \/ SelfMatched))

C8_Witness ==
  /\ pc = "exit0"
  /\ \E i \in 1..Len(listed), j \in 1..Len(listed) :
       /\ i < j
       /\ listed[i].link.err
       /\ listed[i].sig = "none"
       /\ listed[j].sig = "failed"

=============================================================================
